---- MODULE Spec2Model ----
(***************************************************************************)
(* Dynamic Quote Generator (dom-manipulation/script.js, sync variant).     *)
(*                                                                         *)
(* The page is a single-threaded event loop.  Every action below is one    *)
(* macrotask: an event handler, a timer callback, or the part of an async  *)
(* function between two awaits.  A JavaScript string is a sequence of      *)
(* symbols: a word the script never takes apart ("text", "all",            *)
(* "Philosophy") is one symbol, what the user types is spelled out, so     *)
(* that trim(), strict equality and String() conversion are computed and   *)
(* not assumed.  JSON text is a sequence of lexical tokens; JSON.stringify *)
(* and JSON.parse are computed on it.                                      *)
(***************************************************************************)
EXTENDS Integers, Sequences, FiniteSets

(***************************************************************************)
(* Bounds of the model.                                                    *)
(***************************************************************************)
\* longest collection the model lets add/import build
MaxQuotes == 3
\* reconciliation cycles in flight at the same time
MaxCycles == 2
\* Math.random() is drawn from {0/RandRes, ..., (RandRes-1)/RandRes}
RandRes == 3

(***************************************************************************)
(* JavaScript values, each a record tagged with its type:                  *)
(*   s      the symbols of a string                                        *)
(*   n      the number                                                     *)
(*   b      the boolean                                                    *)
(*   fields the own properties of an object, in insertion order            *)
(*   items  the elements of an array                                       *)
(***************************************************************************)
Undefined == [ty |-> "undefined"]
Null == [ty |-> "null"]
Str(chars) == [ty |-> "string", s |-> chars]
Num(k) == [ty |-> "number", n |-> k]
Bool(b) == [ty |-> "boolean", b |-> b]
Obj(fs) == [ty |-> "object", fields |-> fs]
Arr(xs) == [ty |-> "array", items |-> xs]
Field(k, v) == [key |-> k, val |-> v]

\* property names and literals of the script
K_id == <<"id">>
K_text == <<"text">>
K_category == <<"category">>
ALL == <<"all">>

\* ToBoolean(v): the truthiness test of `if (x)`, `x && y`, `x ? a : b`
Truthy(v) ==
    CASE v.ty = "undefined" -> FALSE
      [] v.ty = "null" -> FALSE
      [] v.ty = "string" -> v.s # <<>>
      [] v.ty = "number" -> v.n # 0
      [] v.ty = "boolean" -> v.b
      [] OTHER -> TRUE

\* o.k for an object o: the value of the own property k, undefined if absent
RECURSIVE Lookup(_, _)
Lookup(fs, k) ==
    IF fs = <<>> THEN Undefined
    ELSE IF Head(fs).key = k THEN Head(fs).val
    ELSE Lookup(Tail(fs), k)

\* q.k for any value q; reading a property of null/undefined throws TypeError
Get(q, k) == IF q.ty = "object" THEN Lookup(q.fields, k) ELSE Undefined
GetThrows(q) == q.ty \in {"null", "undefined"}

\* String(v) as used when a value is assigned to option.value
Digits == <<"0", "1", "2", "3", "4", "5", "6", "7", "8", "9">>
RECURSIVE NumToChars(_)
NumToChars(k) ==
    IF k < 10 THEN <<Digits[k + 1]>>
    ELSE NumToChars(k \div 10) \o <<Digits[(k % 10) + 1]>>
JSString(v) ==
    CASE v.ty = "string" -> v.s
      [] v.ty = "number" -> NumToChars(v.n)
      [] v.ty = "boolean" -> IF v.b THEN <<"true">> ELSE <<"false">>
      [] v.ty = "null" -> <<"null">>
      [] v.ty = "undefined" -> <<"undefined">>
      [] v.ty = "array" -> <<>>
      [] OTHER -> <<"[object Object]">>

\* String.prototype.trim
RECURSIVE TrimStart(_)
TrimStart(cs) ==
    IF cs # <<>> /\ Head(cs) = " " THEN TrimStart(Tail(cs)) ELSE cs
RECURSIVE TrimEnd(_)
TrimEnd(cs) ==
    IF cs # <<>> /\ cs[Len(cs)] = " " THEN TrimEnd(SubSeq(cs, 1, Len(cs) - 1)) ELSE cs
Trim(cs) == TrimEnd(TrimStart(cs))

(***************************************************************************)
(* JSON text: a sequence of tokens.  "ws" is white space (the line breaks  *)
(* and indentation of a pretty-printed file), "val" a string, number,      *)
(* true, false or null literal, "bad" a character no JSON text may hold.   *)
(***************************************************************************)
Tok(k) == [k |-> k]
ValTok(v) == [k |-> "val", v |-> v]
WS(pretty) == IF pretty THEN <<Tok("ws")>> ELSE <<>>

\* JSON.stringify(value) and JSON.stringify(value, null, 2)
RECURSIVE StringifyValue(_, _)
RECURSIVE StringifyItems(_, _)
RECURSIVE StringifyFields(_, _, _)
StringifyValue(j, pretty) ==
    CASE j.ty = "array" ->
            IF j.items = <<>> THEN <<Tok("["), Tok("]")>>
            ELSE <<Tok("[")>> \o WS(pretty) \o StringifyItems(j.items, pretty)
                 \o WS(pretty) \o <<Tok("]")>>
      [] j.ty = "object" ->
            LET body == StringifyFields(j.fields, pretty, TRUE)
            IN  IF body = <<>> THEN <<Tok("{"), Tok("}")>>
                ELSE <<Tok("{")>> \o WS(pretty) \o body \o WS(pretty) \o <<Tok("}")>>
      [] j.ty = "undefined" -> <<ValTok(Null)>>
      [] OTHER -> <<ValTok(j)>>
StringifyItems(xs, pretty) ==
    IF Len(xs) = 1 THEN StringifyValue(xs[1], pretty)
    ELSE StringifyValue(xs[1], pretty) \o <<Tok(",")>> \o WS(pretty)
         \o StringifyItems(Tail(xs), pretty)
\* properties whose value is undefined are left out
StringifyFields(fs, pretty, first) ==
    IF fs = <<>> THEN <<>>
    ELSE IF Head(fs).val.ty = "undefined" THEN StringifyFields(Tail(fs), pretty, first)
    ELSE (IF first THEN <<>> ELSE <<Tok(",")>> \o WS(pretty))
         \o <<ValTok(Str(Head(fs).key)), Tok(":")>> \o WS(pretty)
         \o StringifyValue(Head(fs).val, pretty)
         \o StringifyFields(Tail(fs), pretty, FALSE)
JSONstringify(j) == StringifyValue(j, FALSE)
JSONstringifyPretty(j) == StringifyValue(j, TRUE)

\* JSON.parse(text): [ok |-> FALSE] stands for the SyntaxError it throws
ParseFail == [ok |-> FALSE, val |-> Undefined, next |-> 0]
IsWs(t) == t.k = "ws"
NotWs(t) == ~IsWs(t)
KindAt(t, i) == IF i <= Len(t) THEN t[i].k ELSE "eof"
\* a later duplicate key overwrites the value and keeps the first position
RECURSIVE PutField(_, _, _)
PutField(fs, k, v) ==
    IF fs = <<>> THEN <<Field(k, v)>>
    ELSE IF Head(fs).key = k THEN <<Field(k, v)>> \o Tail(fs)
    ELSE <<Head(fs)>> \o PutField(Tail(fs), k, v)
RECURSIVE ParseValue(_, _)
RECURSIVE ParseElems(_, _, _)
RECURSIVE ParseMembers(_, _, _)
ParseValue(t, i) ==
    CASE KindAt(t, i) = "val" -> [ok |-> TRUE, val |-> t[i].v, next |-> i + 1]
      [] KindAt(t, i) = "[" ->
            IF KindAt(t, i + 1) = "]" THEN [ok |-> TRUE, val |-> Arr(<<>>), next |-> i + 2]
            ELSE ParseElems(t, i + 1, <<>>)
      [] KindAt(t, i) = "{" ->
            IF KindAt(t, i + 1) = "}" THEN [ok |-> TRUE, val |-> Obj(<<>>), next |-> i + 2]
            ELSE ParseMembers(t, i + 1, <<>>)
      [] OTHER -> ParseFail
ParseElems(t, i, acc) ==
    LET r == ParseValue(t, i)
    IN  IF ~r.ok THEN ParseFail
        ELSE IF KindAt(t, r.next) = "," THEN ParseElems(t, r.next + 1, Append(acc, r.val))
        ELSE IF KindAt(t, r.next) = "]"
             THEN [ok |-> TRUE, val |-> Arr(Append(acc, r.val)), next |-> r.next + 1]
        ELSE ParseFail
ParseMembers(t, i, acc) ==
    IF ~(KindAt(t, i) = "val" /\ t[i].v.ty = "string" /\ KindAt(t, i + 1) = ":")
    THEN ParseFail
    ELSE LET r == ParseValue(t, i + 2)
         IN  IF ~r.ok THEN ParseFail
             ELSE IF KindAt(t, r.next) = ","
                  THEN ParseMembers(t, r.next + 1, PutField(acc, t[i].v.s, r.val))
             ELSE IF KindAt(t, r.next) = "}"
                  THEN [ok |-> TRUE, val |-> Obj(PutField(acc, t[i].v.s, r.val)),
                        next |-> r.next + 1]
             ELSE ParseFail
JSONparse(text) ==
    LET t == SelectSeq(text, NotWs)
        r == ParseValue(t, 1)
    IN  IF r.ok /\ r.next = Len(t) + 1 THEN [ok |-> TRUE, val |-> r.val]
        ELSE [ok |-> FALSE, val |-> Undefined]

(***************************************************************************)
(* Configuration and mock data (script.js lines 1-11).  The two long quote *)
(* texts are abbreviated to "S1" and "S2"; ids and categories are kept.    *)
(***************************************************************************)
Philosophy == <<"Philosophy">>
Technology == <<"Technology">>
ServerQuote(id, text, category) ==
    Obj(<<Field(K_id, Num(id)), Field(K_text, Str(text)), Field(K_category, Str(category))>>)
\* the array literal MOCK_SERVER_DATA is initialised with
MOCK_SERVER_DATA_literal ==
    << ServerQuote(101, <<"S1">>, Philosophy),
       ServerQuote(102, <<"S2">>, Technology) >>

(***************************************************************************)
(* The state of the page.                                                  *)
(*                                                                         *)
(* quotes       which array object the global `quotes` references:         *)
(*              "MOCK_SERVER_DATA" (after `quotes = serverQuotes` or       *)
(*              `quotes = loadedQuotes` with nothing stored, the global is *)
(*              an alias of the constant) or "array" (an array of its own: *)
(*              `[]` or the result of JSON.parse)                          *)
(* heap         the elements of those two array objects                    *)
(* localStorage the two persisted keys; sessionStorage the session key     *)
(* categoryFilterSelect  the <select>: its option values and its value     *)
(* quoteDisplay, syncStatus  what the two output elements show             *)
(* awaitingPost, awaitingFetch  number of syncQuotes calls suspended at    *)
(*              the post delay (line 98) and at the fetch delay (line 83)  *)
(* addedQuotes  history: the quotes addQuote appended since the last       *)
(*              page load or clearLocalStorage                             *)
(* lastEvent    history: the handler that ran last and how it ended, for   *)
(*              the handlers a specification observes                      *)
(***************************************************************************)
VARIABLES quotes, heap, localStorage, sessionStorage, categoryFilterSelect,
          quoteDisplay, syncStatus, awaitingPost, awaitingFetch,
          addedQuotes, lastEvent

vars == <<quotes, heap, localStorage, sessionStorage, categoryFilterSelect,
          quoteDisplay, syncStatus, awaitingPost, awaitingFetch,
          addedQuotes, lastEvent>>

\* a storage slot: getItem returns null when has is FALSE
NoItem == [has |-> FALSE, v |-> <<>>]
Item(v) == [has |-> TRUE, v |-> v]

\* the program state as one record, for the handlers to transform
State ==
    [quotes |-> quotes, heap |-> heap, localStorage |-> localStorage,
     sessionStorage |-> sessionStorage, categoryFilterSelect |-> categoryFilterSelect,
     quoteDisplay |-> quoteDisplay, syncStatus |-> syncStatus,
     awaitingPost |-> awaitingPost, awaitingFetch |-> awaitingFetch]

\* the elements of the array the global `quotes` references
QuotesOf(s) == s.heap[s.quotes]
Quotes == heap[quotes]

Event(op, outcome) == [op |-> op, outcome |-> outcome]

(***************************************************************************)
(* Section 1: web storage                                                  *)
(***************************************************************************)
\* saveQuotes, lines 45-48
saveQuotes(s) ==
    [s EXCEPT !.localStorage.quotes = Item(JSONstringify(Arr(QuotesOf(s))))]

\* loadQuotes reading an absent key as an array without elements
loadedQuotes_AbsentIsEmpty(s) ==
    LET storedQuotes == s.localStorage.quotes
        parsed == JSONparse(storedQuotes.v)
    IN  IF storedQuotes.has /\ storedQuotes.v # <<>>
        THEN [threw |-> ~parsed.ok,
              ref |-> "array",
              items |-> IF parsed.ok /\ parsed.val.ty = "array" THEN parsed.val.items ELSE <<>>,
              length |-> IF parsed.ok /\ parsed.val.ty = "array"
                         THEN Len(parsed.val.items) ELSE 0 - 1,
              json |-> IF parsed.ok THEN JSONstringify(parsed.val) ELSE <<>>]
        ELSE [threw |-> FALSE,
              ref |-> "array",
              items |-> <<>>,
              length |-> 0,
              json |-> JSONstringify(Arr(<<>>))]

\* loadQuotes, lines 31-40, up to the choice of loadedQuotes: the array it
\* returns is MOCK_SERVER_DATA itself (ref) when nothing is stored, and a new
\* array otherwise; threw when JSON.parse throws.  A stored value that does
\* not parse to an array is read as an array without elements of length -1.
loadedQuotes(s) ==
    LET storedQuotes == s.localStorage.quotes
        parsed == JSONparse(storedQuotes.v)
    IN  IF storedQuotes.has /\ storedQuotes.v # <<>>
        THEN [threw |-> ~parsed.ok,
              ref |-> "array",
              items |-> IF parsed.ok /\ parsed.val.ty = "array" THEN parsed.val.items ELSE <<>>,
              length |-> IF parsed.ok /\ parsed.val.ty = "array"
                         THEN Len(parsed.val.items) ELSE 0 - 1,
              json |-> IF parsed.ok THEN JSONstringify(parsed.val) ELSE <<>>]
        ELSE [threw |-> FALSE,
              ref |-> "MOCK_SERVER_DATA",
              items |-> s.heap["MOCK_SERVER_DATA"],
              length |-> Len(s.heap["MOCK_SERVER_DATA"]),
              json |-> JSONstringify(Arr(s.heap["MOCK_SERVER_DATA"]))]

\* `quotes = x` for an array x: the global now references x
AssignQuotes(s, ref, items) ==
    IF ref = "MOCK_SERVER_DATA"
    THEN [s EXCEPT !.quotes = "MOCK_SERVER_DATA", !.heap["array"] = <<>>]
    ELSE [s EXCEPT !.quotes = "array", !.heap["array"] = items]

\* quotes.push(...xs): appends to the array object `quotes` references
PushQuotes(s, xs) == [s EXCEPT !.heap[s.quotes] = @ \o xs]

(***************************************************************************)
(* Section 3: categories, filter, display                                  *)
(***************************************************************************)
\* new Set(xs) / Array.from(set): distinct values in order of first occurrence
RECURSIVE Unique(_, _)
Unique(xs, seen) ==
    IF xs = <<>> THEN seen
    ELSE IF \E i \in 1..Len(seen) : seen[i] = Head(xs) THEN Unique(Tail(xs), seen)
    ELSE Unique(Tail(xs), Append(seen, Head(xs)))
Includes(xs, v) == \E i \in 1..Len(xs) : xs[i] = v

\* select.value = v selects the first option with that value; with no such
\* option nothing is selected and select.value reads ""
SetSelectValue(sel, v) ==
    [sel EXCEPT !.value = IF Includes(sel.options, v) THEN v ELSE <<>>]

\* populateCategories without emptying the select first (line 139 left out)
populateCategories_Append(s) ==
    LET qs == QuotesOf(s)
        uniqueCategories == Unique([i \in 1..Len(qs) |-> Get(qs[i], K_category)], <<>>)
        options == s.categoryFilterSelect.options
                   \o [i \in 1..Len(uniqueCategories) |-> JSString(uniqueCategories[i])]
    IN  [s EXCEPT !.categoryFilterSelect = [options |-> options, value |-> ALL]]

\* populateCategories without restoring the saved selection
populateCategories_NoRestore(s) ==
    LET qs == QuotesOf(s)
        uniqueCategories == Unique([i \in 1..Len(qs) |-> Get(qs[i], K_category)], <<>>)
        options == <<ALL>> \o [i \in 1..Len(uniqueCategories) |-> JSString(uniqueCategories[i])]
    IN  [s EXCEPT !.categoryFilterSelect = [options |-> options, value |-> ALL]]

\* populateCategories, lines 138-157
populateCategories(s) ==
    LET qs == QuotesOf(s)
        uniqueCategories == Unique([i \in 1..Len(qs) |-> Get(qs[i], K_category)], <<>>)
        options == <<ALL>> \o [i \in 1..Len(uniqueCategories) |-> JSString(uniqueCategories[i])]
        lastFilter == s.localStorage.filter
        sel == [options |-> options, value |-> ALL]
    IN  [s EXCEPT !.categoryFilterSelect =
            IF lastFilter.has /\ lastFilter.v # <<>>
               /\ Includes(uniqueCategories, Str(lastFilter.v))
            THEN SetSelectValue(sel, lastFilter.v)
            ELSE SetSelectValue(sel, ALL)]

\* Math.floor(Math.random() * length), Math.random() = rnd / RandRes
randomIndex(rnd, length) == (rnd * length) \div RandRes

\* showRandomQuote storing the first quote of the subset, not the chosen one
showRandomQuote_SessionFirst(s, quotesToDisplay, rnd) ==
    LET currentCategory == s.categoryFilterSelect.value
    IN  IF Len(quotesToDisplay) = 0
        THEN [s EXCEPT !.quoteDisplay =
                [kind |-> "No quotes available", category |-> currentCategory,
                 quote |-> Undefined]]
        ELSE LET quote == quotesToDisplay[randomIndex(rnd, Len(quotesToDisplay)) + 1]
             IN  [s EXCEPT !.sessionStorage = Item(JSONstringify(quotesToDisplay[1])),
                           !.quoteDisplay =
                               [kind |-> "quote", category |-> <<>>, quote |-> quote]]

\* showRandomQuote without the test for an empty array
showRandomQuote_NoEmptyTest(s, quotesToDisplay, rnd) ==
    LET index == randomIndex(rnd, Len(quotesToDisplay))
        quote == IF index \in 0..(Len(quotesToDisplay) - 1)
                 THEN quotesToDisplay[index + 1] ELSE Undefined
    IN  IF quote = Undefined
        THEN [s EXCEPT !.sessionStorage = Item(<<Tok("undefined")>>),
                       !.quoteDisplay = [kind |-> "", category |-> <<>>, quote |-> Undefined]]
        ELSE [s EXCEPT !.sessionStorage = Item(JSONstringify(quote)),
                       !.quoteDisplay = [kind |-> "quote", category |-> <<>>, quote |-> quote]]

\* showRandomQuote, lines 176-203
showRandomQuote(s, quotesToDisplay, rnd) ==
    LET currentCategory == s.categoryFilterSelect.value
    IN  IF Len(quotesToDisplay) = 0
        THEN [s EXCEPT !.quoteDisplay =
                [kind |-> "No quotes available", category |-> currentCategory,
                 quote |-> Undefined]]
        ELSE LET index == randomIndex(rnd, Len(quotesToDisplay))
                 quote == IF index \in 0..(Len(quotesToDisplay) - 1)
                          THEN quotesToDisplay[index + 1] ELSE Undefined
             IN  IF quote = Undefined
                 \* an index outside the array reads undefined: setItem stores
                 \* the text "undefined" and quote.text throws on a cleared display
                 THEN [s EXCEPT !.sessionStorage = Item(<<Tok("undefined")>>),
                                !.quoteDisplay =
                                    [kind |-> "", category |-> <<>>, quote |-> Undefined]]
                 ELSE [s EXCEPT !.sessionStorage = Item(JSONstringify(quote)),
                                !.quoteDisplay =
                                    [kind |-> "quote", category |-> <<>>, quote |-> quote]]

\* the subset without the filter applied
filteredQuotes_Unfiltered(qs, selectedCategory) == qs
\* the subset without the special case of "all"
filteredQuotes_NoAll(qs, selectedCategory) ==
    LET Matches(quote) == Get(quote, K_category) = Str(selectedCategory)
    IN  SelectSeq(qs, Matches)

\* the subset filterQuotes computes, lines 166-168
filteredQuotes(qs, selectedCategory) ==
    IF selectedCategory = ALL THEN qs
    ELSE LET Matches(quote) == Get(quote, K_category) = Str(selectedCategory)
         IN  SelectSeq(qs, Matches)

\* filterQuotes, lines 162-171
filterQuotes(s, rnd) ==
    LET selectedCategory == s.categoryFilterSelect.value
        s1 == [s EXCEPT !.localStorage.filter = Item(selectedCategory)]
    IN  showRandomQuote(s1, filteredQuotes(QuotesOf(s1), selectedCategory), rnd)

(***************************************************************************)
(* Section 2: server sync                                                  *)
(***************************************************************************)
\* updateSyncStatus, lines 73-76: the message shown (without its numbers)
Status(msg) == msg

\* syncQuotes refusing to start while another call is in flight
syncQuotesCall_Guarded(s) ==
    IF s.awaitingPost + s.awaitingFetch > 0 THEN s
    ELSE [s EXCEPT !.syncStatus = Status("Simulating post/sync of local changes"),
                   !.awaitingPost = @ + 1]

\* syncQuotes up to its first await, lines 93-98
syncQuotesCall(s) ==
    [s EXCEPT !.syncStatus = Status("Simulating post/sync of local changes"),
              !.awaitingPost = @ + 1]

\* syncQuotes resumed after the post delay: calls fetchQuotesFromServer,
\* which runs up to its await, lines 101, 81-83
syncQuotesPosted(s) ==
    [s EXCEPT !.syncStatus = Status("Fetching data from server"),
              !.awaitingPost = @ - 1,
              !.awaitingFetch = @ + 1]

\* the comparison of line 105
differs(serverLength, serverJson, local) ==
    serverLength # local.length \/ serverJson # local.json

\* syncQuotes deciding on the local snapshot as it was when the page was first
\* visited (nothing stored), not as it is when the call resumes
syncQuotesFetched_StaleRead(s, rnd) ==
    LET s0 == [s EXCEPT !.awaitingFetch = @ - 1]
        serverQuotes == s0.heap["MOCK_SERVER_DATA"]
        localQuotes == loadedQuotes([s0 EXCEPT !.localStorage.quotes = NoItem])
    IN  IF differs(Len(serverQuotes), JSONstringify(Arr(serverQuotes)), localQuotes)
        THEN LET s1 == saveQuotes(AssignQuotes(s0, "MOCK_SERVER_DATA", serverQuotes))
                 s2 == [s1 EXCEPT !.syncStatus =
                            Status("Sync complete. Server data took precedence")]
             IN  filterQuotes(populateCategories(s2), rnd)
        ELSE [s0 EXCEPT !.syncStatus = Status("Sync complete. Local data is up-to-date")]

\* syncQuotes replacing the collection without saving it (line 109 left out)
syncQuotesFetched_NotSaved(s, rnd) ==
    LET s0 == [s EXCEPT !.awaitingFetch = @ - 1]
        serverQuotes == s0.heap["MOCK_SERVER_DATA"]
        localQuotes == loadedQuotes(s0)
    IN  IF localQuotes.threw THEN s0
        ELSE IF differs(Len(serverQuotes), JSONstringify(Arr(serverQuotes)), localQuotes)
        THEN LET s1 == AssignQuotes(s0, "MOCK_SERVER_DATA", serverQuotes)
                 s2 == [s1 EXCEPT !.syncStatus =
                            Status("Sync complete. Server data took precedence")]
             IN  filterQuotes(populateCategories(s2), rnd)
        ELSE [s0 EXCEPT !.syncStatus = Status("Sync complete. Local data is up-to-date")]

\* syncQuotes resumed after the fetch delay, lines 86, 101-119.  If
\* loadQuotes throws, the async function ends there.
syncQuotesFetched(s, rnd) ==
    LET s0 == [s EXCEPT !.awaitingFetch = @ - 1]
        serverQuotes == s0.heap["MOCK_SERVER_DATA"]
        localQuotes == loadedQuotes(s0)
    IN  IF localQuotes.threw THEN s0
        ELSE IF differs(Len(serverQuotes), JSONstringify(Arr(serverQuotes)), localQuotes)
        THEN LET s1 == saveQuotes(AssignQuotes(s0, "MOCK_SERVER_DATA", serverQuotes))
                 s2 == [s1 EXCEPT !.syncStatus =
                            Status("Sync complete. Server data took precedence")]
             IN  filterQuotes(populateCategories(s2), rnd)
        ELSE [s0 EXCEPT !.syncStatus = Status("Sync complete. Local data is up-to-date")]

\* how a completing syncQuotes call ends in state s (for lastEvent)
syncOutcome(s) ==
    LET serverQuotes == s.heap["MOCK_SERVER_DATA"]
        localQuotes == loadedQuotes(s)
        lastFilter == s.localStorage.filter
        Named(quote) == Get(quote, K_category) = Str(lastFilter.v)
    IN  IF localQuotes.threw THEN "threw"
        ELSE IF ~differs(Len(serverQuotes), JSONstringify(Arr(serverQuotes)), localQuotes)
        THEN "up to date"
        ELSE IF lastFilter.has /\ lastFilter.v # ALL /\ SelectSeq(serverQuotes, Named) = <<>>
        THEN "replaced, filter reset"
        ELSE "replaced"

\* clearLocalStorage refreshing the display the way the other handlers do
clearLocalStorage_ThenFilter(s) ==
    LET s1 == AssignQuotes(s, "array", <<>>)
        s2 == [s1 EXCEPT !.localStorage = [quotes |-> NoItem, filter |-> NoItem],
                         !.sessionStorage = NoItem]
    IN  filterQuotes(populateCategories(s2), 0)

\* clearLocalStorage cancelling the syncQuotes calls in flight
clearLocalStorage_Cancelling(s) ==
    LET s1 == AssignQuotes(s, "array", <<>>)
        s2 == [s1 EXCEPT !.localStorage = [quotes |-> NoItem, filter |-> NoItem],
                         !.sessionStorage = NoItem,
                         !.quoteDisplay = [kind |-> "All quotes cleared", category |-> <<>>,
                                           quote |-> Undefined],
                         !.awaitingPost = 0,
                         !.awaitingFetch = 0]
    IN  populateCategories(s2)

\* clearLocalStorage, lines 53-63
clearLocalStorage(s) ==
    LET s1 == AssignQuotes(s, "array", <<>>)
        s2 == [s1 EXCEPT !.localStorage = [quotes |-> NoItem, filter |-> NoItem],
                         !.sessionStorage = NoItem,
                         !.quoteDisplay = [kind |-> "All quotes cleared", category |-> <<>>,
                                           quote |-> Undefined]]
    IN  populateCategories(s2)

(***************************************************************************)
(* Section 3, continued: addQuote                                          *)
(***************************************************************************)
\* the test of line 249 on the raw values of the fields
validInput_NoTrim(rawText, rawCategory) == rawText # <<>> /\ rawCategory # <<>>

\* the test of line 249 on the two input fields
validInput(rawText, rawCategory) == Trim(rawText) # <<>> /\ Trim(rawCategory) # <<>>
newQuote(rawText, rawCategory) ==
    Obj(<<Field(K_text, Str(Trim(rawText))), Field(K_category, Str(Trim(rawCategory)))>>)

\* addQuote without its call of saveQuotes
addQuote_NotSaved(s, rawText, rawCategory, rnd) ==
    IF validInput(rawText, rawCategory)
    THEN LET s1 == PushQuotes(s, <<newQuote(rawText, rawCategory)>>)
             s2 == populateCategories(s1)
             s3 == [s2 EXCEPT !.syncStatus = Status("Local change detected")]
         IN  syncQuotesCall(filterQuotes(s3, rnd))
    ELSE s

\* addQuote, lines 242-270
addQuote(s, rawText, rawCategory, rnd) ==
    IF validInput(rawText, rawCategory)
    THEN LET s1 == saveQuotes(PushQuotes(s, <<newQuote(rawText, rawCategory)>>))
             s2 == populateCategories(s1)
             s3 == [s2 EXCEPT !.syncStatus = Status("Local change detected")]
         IN  syncQuotesCall(filterQuotes(s3, rnd))
    ELSE s

(***************************************************************************)
(* Section 4: export and import                                            *)
(***************************************************************************)
\* an export that wraps the array in an object
exportToJsonFile_Wrapped(s) ==
    JSONstringifyPretty(Obj(<<Field(<<"quotes">>, Arr(QuotesOf(s)))>>))

\* the text exportToJsonFile puts into quotes_export.json, line 281
exportToJsonFile(s) == JSONstringifyPretty(Arr(QuotesOf(s)))

\* some() in place of every()
RECURSIVE everyValid_Some(_)
everyValid_Some(xs) ==
    IF xs = <<>> THEN "false"
    ELSE IF GetThrows(Head(xs)) THEN "throws"
    ELSE IF Truthy(Get(Head(xs), K_text)) /\ Truthy(Get(Head(xs), K_category)) THEN "true"
    ELSE everyValid_Some(Tail(xs))

\* importedQuotes.every(q => q.text && q.category), line 305: "throws" when
\* reading a property of null throws before a falsy entry ends the scan
RECURSIVE everyValid(_)
everyValid(xs) ==
    IF xs = <<>> THEN "true"
    ELSE IF GetThrows(Head(xs)) THEN "throws"
    ELSE IF Truthy(Get(Head(xs), K_text)) /\ Truthy(Get(Head(xs), K_category))
         THEN everyValid(Tail(xs))
    ELSE "false"

\* how the onload handler ends for a file text, lines 303-328
importOutcome(text) ==
    LET parsed == JSONparse(text)
    IN  IF ~parsed.ok THEN "parse error"
        ELSE IF parsed.val.ty # "array" THEN "invalid"
        ELSE LET ev == everyValid(parsed.val.items)
             IN  IF ev = "throws" THEN "parse error"
                 ELSE IF ev = "true" THEN "imported"
                 ELSE "invalid"

\* importFromJsonFile as it was before it triggered a sync
importFromJsonFile_NoSync(s, text, rnd) ==
    IF importOutcome(text) = "imported"
    THEN LET s1 == saveQuotes(PushQuotes(s, JSONparse(text).val.items))
         IN  filterQuotes(populateCategories(s1), rnd)
    ELSE s

\* importFromJsonFile assigning the imported array instead of pushing onto quotes
importFromJsonFile_Replacing(s, text, rnd) ==
    IF importOutcome(text) = "imported"
    THEN LET s1 == saveQuotes(AssignQuotes(s, "array", JSONparse(text).val.items))
         IN  syncQuotesCall(filterQuotes(populateCategories(s1), rnd))
    ELSE s

\* importFromJsonFile with its FileReader onload handler, lines 297-331
importFromJsonFile(s, text, rnd) ==
    IF importOutcome(text) = "imported"
    THEN LET s1 == saveQuotes(PushQuotes(s, JSONparse(text).val.items))
         IN  syncQuotesCall(filterQuotes(populateCategories(s1), rnd))
    ELSE s

(***************************************************************************)
(* Section 5: initialisation                                               *)
(***************************************************************************)
\* the state the script's top level leaves (lines 1-19) on a page whose
\* storage holds ls and ss
ScriptLoaded(ls, ss) ==
    [quotes |-> "array",
     heap |-> [r \in {"MOCK_SERVER_DATA", "array"} |->
                 IF r = "MOCK_SERVER_DATA" THEN MOCK_SERVER_DATA_literal ELSE <<>>],
     localStorage |-> ls, sessionStorage |-> ss,
     categoryFilterSelect |-> [options |-> <<ALL>>, value |-> ALL],
     quoteDisplay |-> [kind |-> "", category |-> <<>>, quote |-> Undefined],
     syncStatus |-> Status(""),
     awaitingPost |-> 0, awaitingFetch |-> 0]

\* startPeriodicSync, lines 125-128 (the interval is the TimerTick action)
startPeriodicSync(s) == syncQuotesCall(s)

\* the DOMContentLoaded handler, lines 338-353; if loadQuotes throws the
\* handler ends at its first statement
DOMContentLoaded(s, rnd) ==
    LET l == loadedQuotes(s)
    IN  IF l.threw THEN s
        ELSE filterQuotes(populateCategories(startPeriodicSync(
                 AssignQuotes(s, l.ref, l.items))), rnd)

(***************************************************************************)
(* The environment: what the user types, and the files the user imports.   *)
(***************************************************************************)
\* contents of the two input fields when the Add Quote button is clicked
Input(rawText, rawCategory) == <<rawText, rawCategory>>
In_BY == Input(<<" ", "B", " ">>, <<"Y", " ">>)
In_Aall == Input(<<"A">>, <<"all">>)
In_blankText == Input(<<" ">>, <<"Y">>)
In_noCategory == Input(<<"B">>, <<>>)

TextCategory(text, category) == Obj(<<Field(K_text, text), Field(K_category, category)>>)
QuoteCZ == TextCategory(Str(<<"C">>), Str(<<"Z">>))
\* the texts of the files the user has
File_one == JSONstringify(Arr(<<QuoteCZ>>))
File_empty == JSONstringify(Arr(<<>>))
File_object == JSONstringify(QuoteCZ)
File_partial == JSONstringifyPretty(Arr(<<QuoteCZ, Obj(<<Field(K_text, Str(<<"D">>))>>)>>))
File_blank == JSONstringify(Arr(<<TextCategory(Str(<<>>), Str(<<"Z">>))>>))
File_broken == <<Tok("["), Tok("{"), Tok("bad")>>
File_null == JSONstringify(Arr(<<Null>>))

\* an entry whose text is a number and whose category is the boolean true
File_typed == JSONstringify(Arr(<<TextCategory(Num(5), Bool(TRUE))>>))

\* an environment: the inputs typed, the files imported, and the handlers
\* whose runs lastEvent records
Environment(inputs, files, observed) ==
    [inputs |-> inputs, files |-> files, observed |-> observed]
MainInputs == {In_BY, In_blankText, In_noCategory}
MainFiles == {File_one, File_broken}
AllFiles == {File_one, File_empty, File_object, File_partial, File_blank, File_broken, File_null}

Cycles == awaitingPost + awaitingFetch
Rnd == 0..(RandRes - 1)

\* the program variables take the values of the state record s
Becomes(s) ==
    /\ quotes' = s.quotes
    /\ heap' = s.heap
    /\ localStorage' = s.localStorage
    /\ sessionStorage' = s.sessionStorage
    /\ categoryFilterSelect' = s.categoryFilterSelect
    /\ quoteDisplay' = s.quoteDisplay
    /\ syncStatus' = s.syncStatus
    /\ awaitingPost' = s.awaitingPost
    /\ awaitingFetch' = s.awaitingFetch

NoEvent == Event("", "")
Observe(env, op, outcome) ==
    lastEvent' = IF op \in env.observed THEN Event(op, outcome) ELSE NoEvent

NoStorage == [quotes |-> NoItem, filter |-> NoItem]

\* first visit: the page is loaded with nothing stored
Init ==
    \E rnd \in Rnd :
        LET s == DOMContentLoaded(ScriptLoaded(NoStorage, NoItem), rnd)
        IN  /\ quotes = s.quotes
            /\ heap = s.heap
            /\ localStorage = s.localStorage
            /\ sessionStorage = s.sessionStorage
            /\ categoryFilterSelect = s.categoryFilterSelect
            /\ quoteDisplay = s.quoteDisplay
            /\ syncStatus = s.syncStatus
            /\ awaitingPost = s.awaitingPost
            /\ awaitingFetch = s.awaitingFetch
            /\ addedQuotes = {}
            /\ lastEvent = NoEvent

\* the page is loaded again in the same tab: both storages are kept, the
\* script starts over and pending timers are gone
Reload(env) ==
    \E rnd \in Rnd :
        /\ Becomes(DOMContentLoaded(ScriptLoaded(localStorage, sessionStorage), rnd))
        /\ addedQuotes' = {}
        /\ Observe(env, "DOMContentLoaded", "")

\* setInterval(syncQuotes, SYNC_INTERVAL_MS) fires, line 127
TimerTick(env) ==
    /\ Cycles < MaxCycles
    /\ Becomes(syncQuotesCall(State))
    /\ Observe(env, "setInterval", "")
    /\ UNCHANGED addedQuotes

\* the post delay of one suspended syncQuotes call is over
PostDelay(env) ==
    /\ awaitingPost > 0
    /\ Becomes(syncQuotesPosted(State))
    /\ Observe(env, "syncQuotes", "posted")
    /\ UNCHANGED addedQuotes

\* the fetch delay of one suspended syncQuotes call is over: it completes
FetchDelay(env) ==
    /\ awaitingFetch > 0
    /\ \E rnd \in Rnd : Becomes(syncQuotesFetched(State, rnd))
    /\ Observe(env, "syncQuotes", syncOutcome(State))
    /\ UNCHANGED addedQuotes

\* click on Add Quote with text and category typed into the two fields
AddQuoteValid(env) ==
    \E in \in env.inputs, rnd \in Rnd :
        /\ validInput(in[1], in[2])
        /\ Len(Quotes) < MaxQuotes
        /\ Cycles < MaxCycles
        /\ Becomes(addQuote(State, in[1], in[2], rnd))
        /\ addedQuotes' = addedQuotes \cup {newQuote(in[1], in[2])}
        /\ Observe(env, "addQuote", "added")
AddQuoteInvalid(env) ==
    \E in \in env.inputs :
        /\ ~validInput(in[1], in[2])
        /\ Becomes(addQuote(State, in[1], in[2], 0))
        /\ Observe(env, "addQuote", "alert")
        /\ UNCHANGED addedQuotes

\* a file is chosen in the import control and has been read
ImportAccepted(env) ==
    \E text \in env.files, rnd \in Rnd :
        /\ importOutcome(text) = "imported"
        /\ Len(Quotes) + Len(JSONparse(text).val.items) <= MaxQuotes
        /\ Cycles < MaxCycles
        /\ Becomes(importFromJsonFile(State, text, rnd))
        /\ Observe(env, "importFromJsonFile", "imported")
        /\ UNCHANGED addedQuotes
ImportRejected(env) ==
    \E text \in env.files :
        /\ importOutcome(text) # "imported"
        /\ Becomes(importFromJsonFile(State, text, 0))
        /\ Observe(env, "importFromJsonFile", importOutcome(text))
        /\ UNCHANGED addedQuotes

\* click on Export, then the file it produced is chosen in the import
\* control.  The export itself changes nothing on the page.
ExportImport(env) ==
    \E rnd \in Rnd :
        LET text == exportToJsonFile(State)
        IN  /\ importOutcome(text) = "imported" =>
                  2 * Len(Quotes) <= MaxQuotes /\ Cycles < MaxCycles
            /\ Becomes(importFromJsonFile(State, text, rnd))
            /\ Observe(env, "exportToJsonFile", importOutcome(text))
            /\ UNCHANGED addedQuotes

\* click on Clear
Clear(env) ==
    /\ Becomes(clearLocalStorage(State))
    /\ addedQuotes' = {}
    /\ Observe(env, "clearLocalStorage", "")

\* the user picks an option of the category dropdown: onchange runs filterQuotes
ChangeFilter(env) ==
    \E i \in 1..Len(categoryFilterSelect.options), rnd \in Rnd :
        LET picked == [State EXCEPT !.categoryFilterSelect.value =
                                        categoryFilterSelect.options[i]]
        IN  /\ Becomes(filterQuotes(picked, rnd))
            /\ Observe(env, "change", "")
            /\ UNCHANGED addedQuotes

\* click on Show New Quote: the listener is filterQuotes, line 347
NewQuote(env) ==
    \E rnd \in Rnd :
        /\ Becomes(filterQuotes(State, rnd))
        /\ Observe(env, "newQuote", "")
        /\ UNCHANGED addedQuotes

Step(env) ==
    \/ Reload(env)
    \/ TimerTick(env)
    \/ PostDelay(env)
    \/ FetchDelay(env)
    \/ AddQuoteValid(env)
    \/ AddQuoteInvalid(env)
    \/ ImportAccepted(env)
    \/ ImportRejected(env)
    \/ ExportImport(env)
    \/ Clear(env)
    \/ ChangeFilter(env)
    \/ NewQuote(env)

\* the page with a user who adds B/Y and imports the files above
MainEnv == Environment(MainInputs, MainFiles, {})
Next == Step(MainEnv)
Spec == Init /\ [][Next]_vars

\* the same page, with the runs of syncQuotes recorded in lastEvent
SyncEnv == Environment(MainInputs, MainFiles, {"syncQuotes"})
NextSync == Step(SyncEnv)
SpecSync == Init /\ [][NextSync]_vars

\* the same page, with the runs of addQuote recorded in lastEvent
AddEnv == Environment(MainInputs, MainFiles, {"addQuote"})
NextAdd == Step(AddEnv)
SpecAdd == Init /\ [][NextAdd]_vars

\* a user who imports one.json, empty.json and partial.json, imports recorded
ImportEnv == Environment({In_BY, In_blankText}, {File_one, File_empty, File_partial},
                         {"importFromJsonFile"})
NextImport == Step(ImportEnv)
SpecImport == Init /\ [][NextImport]_vars

\* a user who tries every file the import rejects, imports recorded
RejectEnv == Environment({In_BY, In_blankText}, AllFiles \ {File_empty},
                         {"importFromJsonFile"})
NextReject == Step(RejectEnv)
SpecReject == Init /\ [][NextReject]_vars

\* the main page, with export-import round trips recorded
ExportEnv == Environment(MainInputs, MainFiles, {"exportToJsonFile"})
NextExport == Step(ExportEnv)
SpecExport == Init /\ [][NextExport]_vars

\* a user who imports typed.json, imports recorded
TypedEnv == Environment({In_BY, In_blankText}, {File_one, File_typed, File_broken},
                        {"importFromJsonFile"})
NextTyped == Step(TypedEnv)
SpecTyped == Init /\ [][NextTyped]_vars

\* a user who files a quote under the category "all"
AllEnv == Environment({In_Aall, In_blankText}, MainFiles, {})
NextAll == Step(AllEnv)
SpecAll == Init /\ [][NextAll]_vars

(***************************************************************************)
(* The persisted collection damaged from outside the page.                 *)
(* localStorage is shared by everything on the origin and survives the     *)
(* page: what getItem returns at line 32 need not be what saveQuotes wrote.*)
(***************************************************************************)
\* a stored value JSON.parse cannot read
Corrupted == File_broken
StorageCorrupted ==
    /\ localStorage.quotes # Item(Corrupted)
    /\ localStorage' = [localStorage EXCEPT !.quotes = Item(Corrupted)]
    /\ lastEvent' = NoEvent
    /\ UNCHANGED <<quotes, heap, sessionStorage, categoryFilterSelect, quoteDisplay,
                   syncStatus, awaitingPost, awaitingFetch, addedQuotes>>
\* the DOMContentLoaded handler ended at loadQuotes (line 340): no sync was
\* started, no listener attached and no form created, so that all the user
\* can do with the page is load it again
Aborted == syncStatus = Status("") /\ Cycles = 0
CorruptEnv == Environment(MainInputs, MainFiles, {"DOMContentLoaded", "syncQuotes"})
NextCorrupt ==
    \/ ~Aborted /\ Step(CorruptEnv)
    \/ Aborted /\ Reload(CorruptEnv)
    \/ StorageCorrupted
SpecCorrupt == Init /\ [][NextCorrupt]_vars

\* page loads, adds, imports and steps of syncQuotes recorded
PageEnv ==
    Environment(MainInputs, MainFiles,
                {"DOMContentLoaded", "addQuote", "importFromJsonFile", "exportToJsonFile",
                 "syncQuotes"})
NextPage == Step(PageEnv)
SpecPage == Init /\ [][NextPage]_vars

(***************************************************************************)
(* The page with a record of reconciliation: lastEvent is Reconciled from  *)
(* the completion of a syncQuotes call until the next add, import or       *)
(* clear; every other handler, the page load included, leaves the record   *)
(* as it is.                                                               *)
(***************************************************************************)
Reconciled == Event("syncQuotes", "completed")
ReloadKeeping ==
    \E rnd \in Rnd :
        /\ Becomes(DOMContentLoaded(ScriptLoaded(localStorage, sessionStorage), rnd))
        /\ addedQuotes' = {}
        /\ UNCHANGED lastEvent
TimerTickKeeping ==
    /\ Cycles < MaxCycles
    /\ Becomes(syncQuotesCall(State))
    /\ UNCHANGED <<addedQuotes, lastEvent>>
PostDelayKeeping ==
    /\ awaitingPost > 0
    /\ Becomes(syncQuotesPosted(State))
    /\ UNCHANGED <<addedQuotes, lastEvent>>
FetchDelayReconciling ==
    /\ awaitingFetch > 0
    /\ \E rnd \in Rnd : Becomes(syncQuotesFetched(State, rnd))
    /\ lastEvent' = Reconciled
    /\ UNCHANGED addedQuotes
AddQuoteForgetting ==
    \E rnd \in Rnd :
        /\ Len(Quotes) < MaxQuotes
        /\ Cycles < MaxCycles
        /\ Becomes(addQuote(State, In_BY[1], In_BY[2], rnd))
        /\ addedQuotes' = addedQuotes \cup {newQuote(In_BY[1], In_BY[2])}
        /\ lastEvent' = NoEvent
ImportForgetting ==
    \E rnd \in Rnd :
        /\ Len(Quotes) + Len(JSONparse(File_one).val.items) <= MaxQuotes
        /\ Cycles < MaxCycles
        /\ Becomes(importFromJsonFile(State, File_one, rnd))
        /\ lastEvent' = NoEvent
        /\ UNCHANGED addedQuotes
ClearForgetting ==
    /\ Becomes(clearLocalStorage(State))
    /\ addedQuotes' = {}
    /\ lastEvent' = NoEvent
ChangeFilterKeeping ==
    \E i \in 1..Len(categoryFilterSelect.options), rnd \in Rnd :
        LET picked == [State EXCEPT !.categoryFilterSelect.value =
                                        categoryFilterSelect.options[i]]
        IN  /\ Becomes(filterQuotes(picked, rnd))
            /\ UNCHANGED <<addedQuotes, lastEvent>>
NextReconciled ==
    \/ ReloadKeeping
    \/ TimerTickKeeping
    \/ PostDelayKeeping
    \/ FetchDelayReconciling
    \/ AddQuoteForgetting
    \/ ImportForgetting
    \/ ClearForgetting
    \/ ChangeFilterKeeping
SpecReconciled == Init /\ [][NextReconciled]_vars

(***************************************************************************)
(* One page session, from the page load on and without another load, in    *)
(* which timers that are due fire: a suspended syncQuotes call resumes     *)
(* when its setTimeout of line 98 or line 83 expires, and the interval of  *)
(* line 127 keeps firing (TimerTick is disabled only by the bound of the   *)
(* model, hence the strong fairness).                                      *)
(***************************************************************************)
LiveEnv == Environment(MainInputs, MainFiles, {})
NextLive ==
    \/ TimerTick(LiveEnv)
    \/ PostDelay(LiveEnv)
    \/ FetchDelay(LiveEnv)
    \/ AddQuoteValid(LiveEnv)
    \/ AddQuoteInvalid(LiveEnv)
    \/ ImportAccepted(LiveEnv)
    \/ ImportRejected(LiveEnv)
    \/ ExportImport(LiveEnv)
    \/ Clear(LiveEnv)
    \/ ChangeFilter(LiveEnv)
    \/ NewQuote(LiveEnv)
\* weak fairness of FetchDelay, which is enabled exactly when a call is
\* suspended at the fetch delay
FetchDelayFires ==
    []<>(awaitingFetch = 0) \/ []<><<FetchDelay(LiveEnv)>>_vars
SpecLive ==
    /\ Init
    /\ [][NextLive]_vars
    /\ WF_vars(PostDelay(LiveEnv))
    /\ FetchDelayFires
    /\ SF_vars(TimerTick(LiveEnv))

(***************************************************************************)
(* Steps of the handlers, as relations on the program variables.           *)
(***************************************************************************)
Has(xs, x) == \E i \in 1..Len(xs) : xs[i] = x
\* the step is one of the handler op, in an environment that observes op
Logged(op) == lastEvent'.op = op
CanonicalSnapshot == heap["MOCK_SERVER_DATA"]
PersistedQuotes == localStorage.quotes
\* a suspended syncQuotes call completes
CompleteStep(rnd) == awaitingFetch > 0 /\ Becomes(syncQuotesFetched(State, rnd))
\* addQuote runs on the input in
AddStep(in, rnd) == Becomes(addQuote(State, in[1], in[2], rnd))
\* the onload handler of importFromJsonFile runs on a file text
ImportStep(text, rnd) == Becomes(importFromJsonFile(State, text, rnd))
\* filterQuotes runs with the dropdown set to c
FilterStep(c, rnd) ==
    /\ categoryFilterSelect'.value = c
    /\ Becomes(filterQuotes([State EXCEPT !.categoryFilterSelect.value = c], rnd))

(***************************************************************************)
(* C1.  Whenever a reconciliation cycle completes, the in-memory           *)
(* collection equals the canonical snapshot: if the local collection       *)
(* differed from it, the snapshot has replaced the collection and has been *)
(* written to the persisted key; if they were identical, neither the       *)
(* collection nor the persisted key changed.  From every reachable state,  *)
(* also after clearLocalStorage.                                           *)
(***************************************************************************)
C1_ReconcileToCanonical ==
    [][\A rnd \in Rnd :
          CompleteStep(rnd) =>
              /\ Quotes' = CanonicalSnapshot'
              /\ Quotes # CanonicalSnapshot =>
                    /\ quotes' = "MOCK_SERVER_DATA"
                    /\ PersistedQuotes' = Item(JSONstringify(Arr(CanonicalSnapshot')))
              /\ Quotes = CanonicalSnapshot =>
                    /\ Quotes' = Quotes
                    /\ PersistedQuotes' = PersistedQuotes]_vars

(***************************************************************************)
(* C2.  For every text and category that are non-empty after trimming,     *)
(* addQuote appends exactly one quote {text, category} at the end of the   *)
(* collection: the length grows by one, the earlier entries keep their     *)
(* values and order, and on return the persisted collection equals the     *)
(* in-memory one.                                                          *)
(***************************************************************************)
QuoteBY == TextCategory(Str(<<"B">>), Str(<<"Y">>))
C2_AddAppendsOne ==
    [][\A in \in AddEnv.inputs, rnd \in Rnd :
          (Logged("addQuote") /\ Trim(in[1]) # <<>> /\ Trim(in[2]) # <<>> /\ AddStep(in, rnd)) =>
              /\ Len(Quotes') = Len(Quotes) + 1
              /\ SubSeq(Quotes', 1, Len(Quotes)) = Quotes
              /\ Quotes'[Len(Quotes')] = TextCategory(Str(Trim(in[1])), Str(Trim(in[2])))
              /\ in = In_BY => Quotes'[Len(Quotes')] = QuoteBY
              /\ PersistedQuotes'.has
              /\ JSONparse(PersistedQuotes'.v) = [ok |-> TRUE, val |-> Arr(Quotes')]]_vars
\* addQuote has just appended B/Y to the two server quotes and saved
C2_Witness ==
    /\ lastEvent = Event("addQuote", "added")
    /\ Len(Quotes) = 3
    /\ Quotes[3] = QuoteBY
    /\ JSONparse(PersistedQuotes.v) = [ok |-> TRUE, val |-> Arr(Quotes)]

(***************************************************************************)
(* C3.  As claimed: a quote added by a successful addQuote is an element   *)
(* of the in-memory collection in every later state, as long as            *)
(* clearLocalStorage does not run (addedQuotes is emptied by a clear and   *)
(* by a page load).                                                        *)
(***************************************************************************)
C3_AddedStaysRetrievable == \A q \in addedQuotes : Has(Quotes, q)

\* a completing syncQuotes call takes the branch that replaces the collection
ReplacingStep ==
    /\ Logged("syncQuotes")
    /\ \E rnd \in Rnd : CompleteStep(rnd)
    /\ syncOutcome(State) \in {"replaced", "replaced, filter reset"}

(***************************************************************************)
(* C3, amended.  A quote added by a successful addQuote is in the          *)
(* collection when addQuote returns and stays in it through filter         *)
(* changes, further adds, imports, timer ticks and reconciliation cycles   *)
(* that find the local data up to date; a cycle that replaces the          *)
(* collection keeps the quote exactly if the canonical snapshot holds it.  *)
(***************************************************************************)
C3_AddedKeptUntilReplaced ==
    [][\A q \in addedQuotes' :
          (q \in addedQuotes => Has(Quotes, q)) =>
              IF ReplacingStep
              THEN Has(Quotes', q) <=> Has(CanonicalSnapshot, q)
              ELSE Has(Quotes', q)]_vars
\* a cycle has completed after an add and the added quote is still there
C3_Witness ==
    /\ lastEvent = Event("syncQuotes", "up to date")
    /\ addedQuotes # {}
    /\ \A q \in addedQuotes : Has(Quotes, q)

(***************************************************************************)
(* What the claims about import, filter and display speak of.              *)
(***************************************************************************)
\* a payload as the import requires it: an array whose every entry is an
\* object with a non-empty text and a non-empty category
NonEmptyString(v) == v.ty = "string" /\ v.s # <<>>
ValidPayload(text) ==
    LET p == JSONparse(text)
    IN  /\ p.ok
        /\ p.val.ty = "array"
        /\ \A i \in 1..Len(p.val.items) :
              /\ p.val.items[i].ty = "object"
              /\ NonEmptyString(Get(p.val.items[i], K_text))
              /\ NonEmptyString(Get(p.val.items[i], K_category))
\* the files that are such a payload, and those that are not: broken.json is
\* no JSON, object.json and null.json are no array, partial.json has an entry
\* without category and blank.json an entry with an empty text
ValidFiles == {text \in ImportEnv.files : ValidPayload(text)}
RejectedFiles == {text \in RejectEnv.files : ~ValidPayload(text)}
\* the subsequence of the quotes whose category is c
OfCategory(qs, c) ==
    LET IsC(quote) == Get(quote, K_category) = Str(c)
    IN  SelectSeq(qs, IsC)
\* what the display shows when the presenter is given subset under filter c
Presented(subset, rnd, c) ==
    IF subset = <<>>
    THEN [kind |-> "No quotes available", category |-> c, quote |-> Undefined]
    ELSE [kind |-> "quote", category |-> <<>>,
          quote |-> subset[randomIndex(rnd, Len(subset)) + 1]]
Options == categoryFilterSelect.options

(***************************************************************************)
(* C4.  A successful import appends all imported entries, in file order,   *)
(* after the existing entries, without replacing or reordering them,       *)
(* writes the resulting collection to the persisted key, and then starts a *)
(* reconciliation cycle.                                                   *)
(***************************************************************************)
QuoteCZ_only == <<QuoteCZ>>
C4_ImportAppends ==
    [][\A text \in ValidFiles, rnd \in Rnd :
          (Logged("importFromJsonFile") /\ ImportStep(text, rnd)) =>
              /\ Quotes' = Quotes \o JSONparse(text).val.items
              /\ text = File_one => Quotes' = Quotes \o QuoteCZ_only
              /\ PersistedQuotes'.has
              /\ JSONparse(PersistedQuotes'.v) = [ok |-> TRUE, val |-> Arr(Quotes')]
              /\ awaitingPost' = awaitingPost + 1
              /\ awaitingFetch' = awaitingFetch
              /\ syncStatus' = "Simulating post/sync of local changes"]_vars
\* C/Z has just been imported after the two server quotes
C4_Witness ==
    /\ lastEvent = Event("importFromJsonFile", "imported")
    /\ Len(Quotes) = 3
    /\ Quotes[3] = QuoteCZ
    /\ PersistedQuotes = Item(JSONstringify(Arr(Quotes)))
    /\ awaitingPost >= 1

(***************************************************************************)
(* C5.  An import is all-or-nothing: if the file is not valid JSON, or the *)
(* payload is not an array, or an entry has a missing or empty text or     *)
(* category, then the in-memory collection, the persisted collection, the  *)
(* persisted filter and the last-viewed quote are unchanged, no entry of   *)
(* the file is added and no reconciliation cycle is started.               *)
(***************************************************************************)
C5_ImportAllOrNothing ==
    [][\A text \in RejectedFiles, rnd \in Rnd :
          (Logged("importFromJsonFile") /\ ImportStep(text, rnd)) =>
              /\ UNCHANGED <<quotes, heap, localStorage, sessionStorage>>
              /\ UNCHANGED <<awaitingPost, awaitingFetch>>]_vars
\* a file has just been rejected on a page that holds an added quote
C5_Witness ==
    /\ lastEvent.op = "importFromJsonFile"
    /\ lastEvent.outcome \in {"invalid", "parse error"}
    /\ addedQuotes # {}
    /\ Len(Quotes) = 3

(***************************************************************************)
(* C6.  Export then import: for every collection C in memory, the file     *)
(* exportToJsonFile produces is never rejected by the import, and          *)
(* importing it with nothing in between leaves the collection equal to C   *)
(* followed by C.                                                          *)
(***************************************************************************)
C6_ExportImportDoubles ==
    LET text == exportToJsonFile(State)
    IN  /\ ValidPayload(text)
        /\ JSONparse(text).val.items = Quotes
        /\ importOutcome(text) = "imported"
        /\ \A rnd \in Rnd :
              QuotesOf(importFromJsonFile(State, text, rnd)) = Quotes \o Quotes
\* a collection of one quote has just been exported and imported back
C6_Witness ==
    /\ lastEvent = Event("exportToJsonFile", "imported")
    /\ Len(Quotes) = 2
    /\ Quotes[1] = Quotes[2]

(***************************************************************************)
(* C7.  As claimed: for every category c offered by the dropdown,          *)
(* including a category named "all", filterQuotes passes to the presenter  *)
(* exactly the subsequence of the quotes whose category equals c, in their *)
(* original order.                                                         *)
(***************************************************************************)
C7_FilterIsSubsequence ==
    [][\A i \in 2..Len(Options), rnd \in Rnd :
          FilterStep(Options[i], rnd) =>
              quoteDisplay' = Presented(OfCategory(Quotes, Options[i]), rnd, Options[i])]_vars

(***************************************************************************)
(* C7, amended.  The same for every category c other than the literal      *)
(* "all": a category of that name selects the whole collection.            *)
(***************************************************************************)
C7_FilterIsSubsequenceExceptAll ==
    [][\A i \in 2..Len(Options), rnd \in Rnd :
          FilterStep(Options[i], rnd) =>
              quoteDisplay' =
                  IF Options[i] = ALL THEN Presented(Quotes, rnd, ALL)
                  ELSE Presented(OfCategory(Quotes, Options[i]), rnd, Options[i])]_vars
\* a category is the active filter, a quote of it is shown, and the
\* collection holds a quote of the category "all" as well
C7_Witness ==
    /\ categoryFilterSelect.value = Technology
    /\ localStorage.filter = Item(Technology)
    /\ quoteDisplay.kind = "quote"
    /\ Get(quoteDisplay.quote, K_category) = Str(Technology)
    /\ Len(OfCategory(Quotes, ALL)) = 1
    /\ Len(Quotes) = 3

(***************************************************************************)
(* C8.  When the active filter is "all", filterQuotes passes the full      *)
(* in-memory collection to the presenter, every quote present and in       *)
(* unchanged order.                                                        *)
(***************************************************************************)
C8_AllIsWholeCollection ==
    [][\A rnd \in Rnd :
          FilterStep(ALL, rnd) => quoteDisplay' = Presented(Quotes, rnd, ALL)]_vars
\* under the filter "all" the third of three quotes is shown
C8_Witness ==
    /\ categoryFilterSelect.value = ALL
    /\ localStorage.filter = Item(ALL)
    /\ Len(Quotes) = 3
    /\ quoteDisplay = [kind |-> "quote", category |-> <<>>, quote |-> Quotes[3]]

(***************************************************************************)
(* C9.  If the persisted filter names a category that no quote of the      *)
(* current collection has, populateCategories sets the effective filter to *)
(* "all"; if it names a category that is present, the effective filter is  *)
(* that category.                                                          *)
(***************************************************************************)
EffectiveFilter(lastFilter, qs) ==
    IF lastFilter.has /\ OfCategory(qs, lastFilter.v) # <<>> THEN lastFilter.v ELSE ALL
\* every handler that changes the collection (addQuote, the import, the
\* replacing branch of syncQuotes, clearLocalStorage, the page load) calls
\* populateCategories on the new collection before it returns; the persisted
\* filter it reads is the one of before the step, clearLocalStorage having
\* removed it
C9_StaleFilterFallsBack ==
    [][Quotes' # Quotes =>
          categoryFilterSelect'.value =
              IF Becomes(clearLocalStorage(State)) THEN ALL
              ELSE EffectiveFilter(localStorage.filter, Quotes')]_vars
\* a cycle has replaced the collection, the filter named a category that is
\* gone, and the dropdown is back on "all"
C9_Witness ==
    /\ lastEvent = Event("syncQuotes", "replaced, filter reset")
    /\ categoryFilterSelect.value = ALL
    /\ localStorage.filter = Item(ALL)

(***************************************************************************)
(* C10.  Presenting never fails on an empty subset: given an empty subset  *)
(* showRandomQuote renders the empty-state message, selects no quote and   *)
(* leaves the last-viewed key unchanged; given a non-empty subset the      *)
(* selected index is within 0..length-1 and the selected quote is an       *)
(* element of the subset.                                                  *)
(***************************************************************************)
C10_PresentingTotal ==
    [][/\ \A n \in 1..Len(Quotes), rnd \in Rnd : randomIndex(rnd, n) \in 0..(n - 1)
       /\ \A i \in 1..Len(Options), rnd \in Rnd :
             FilterStep(Options[i], rnd) =>
                 LET subset == IF Options[i] = ALL THEN Quotes
                               ELSE OfCategory(Quotes, Options[i])
                 IN  IF subset = <<>>
                     THEN /\ quoteDisplay'.kind = "No quotes available"
                          /\ quoteDisplay'.quote = Undefined
                          /\ sessionStorage' = sessionStorage
                     ELSE /\ quoteDisplay'.kind = "quote"
                          /\ Has(subset, quoteDisplay'.quote)]_vars
\* the collection was cleared and New Quote was clicked: the empty-state
\* message is shown and nothing is stored as last viewed
C10_Witness ==
    /\ Quotes = <<>>
    /\ quoteDisplay.kind = "No quotes available"
    /\ ~sessionStorage.has
    /\ localStorage.filter = Item(ALL)

(***************************************************************************)
(* C11.  When clearLocalStorage returns, the in-memory collection is empty *)
(* and the collection key, the active-filter key and the session-scoped    *)
(* last-viewed key are all absent: the refresh of the dropdown it performs *)
(* writes none of them back.                                               *)
(***************************************************************************)
ClearStep == Becomes(clearLocalStorage(State))
C11_ClearWipesAll ==
    [][ClearStep =>
          /\ Quotes' = <<>>
          /\ ~localStorage'.quotes.has
          /\ ~localStorage'.filter.has
          /\ ~sessionStorage'.has
          /\ Options' = <<ALL>>]_vars
\* the page was cleared after a quote had been added to the three it held
C11_Witness ==
    /\ quoteDisplay.kind = "All quotes cleared"
    /\ Quotes = <<>>
    /\ localStorage = NoStorage
    /\ sessionStorage = NoItem
    /\ Len(CanonicalSnapshot) = 3

(***************************************************************************)
(* C12.  The canonical snapshot is fixed: what the simulated fetch returns *)
(* is the same canned dataset in every cycle, and no add, import, clear or *)
(* reconcile, in any order, changes its contents or its length.            *)
(***************************************************************************)
C12_CanonicalFixed == CanonicalSnapshot = MOCK_SERVER_DATA_literal

(***************************************************************************)
(* C14.  Loading the collection, at page load and inside every             *)
(* reconciliation cycle, returns the persisted collection when the key     *)
(* holds valid data and the default set when the key is absent; a          *)
(* persisted value that cannot be parsed is silently treated as absent:    *)
(* the default set is returned and no error reaches the caller, so that    *)
(* the page load goes on to start its first cycle and the cycle goes on to *)
(* its comparison.                                                         *)
(***************************************************************************)
LoadResult(stored, default) ==
    IF stored.has /\ stored.v # <<>> /\ JSONparse(stored.v).ok
    THEN JSONparse(stored.v).val.items
    ELSE default
C14_LoadNeverFails ==
    [][/\ Logged("DOMContentLoaded") =>
             /\ Quotes' = LoadResult(localStorage.quotes, MOCK_SERVER_DATA_literal)
             /\ awaitingPost' = 1
       /\ Logged("syncQuotes") => lastEvent'.outcome # "threw"]_vars

(***************************************************************************)
(* C15.  If addQuote is invoked with a text or a category that is empty    *)
(* after trimming whitespace, it aborts with no partial effect: the        *)
(* in-memory collection, the persisted collection, the persisted filter    *)
(* and the last-viewed quote are unchanged and no reconciliation cycle is   *)
(* started.                                                                *)
(***************************************************************************)
C15_InvalidAddNoEffect ==
    [][\A in \in AddEnv.inputs, rnd \in Rnd :
          (/\ Logged("addQuote")
           /\ Trim(in[1]) = <<>> \/ Trim(in[2]) = <<>>
           /\ AddStep(in, rnd)) =>
              /\ UNCHANGED <<quotes, heap, localStorage, sessionStorage>>
              /\ UNCHANGED <<awaitingPost, awaitingFetch>>]_vars
\* an add was refused on an idle page that holds an added quote
C15_Witness ==
    /\ lastEvent = Event("addQuote", "alert")
    /\ addedQuotes # {}
    /\ Len(Quotes) = 3
    /\ Cycles = 0

(***************************************************************************)
(* C16.  Reconciliation cycles are not guarded against overlap: whatever   *)
(* number of cycles is suspended at a delay, a timer tick, an addQuote and *)
(* a successful import each start one more, so that a state with two       *)
(* cycles in flight at the same time is reachable.                         *)
(***************************************************************************)
C16_CyclesOverlap ==
    /\ syncQuotesCall(State).awaitingPost = awaitingPost + 1
    /\ syncQuotesCall(State).awaitingFetch = awaitingFetch
    /\ \A rnd \in Rnd :
          /\ addQuote(State, In_BY[1], In_BY[2], rnd).awaitingPost = awaitingPost + 1
          /\ importFromJsonFile(State, File_one, rnd).awaitingPost = awaitingPost + 1
\* one cycle waits for its fetch while a later one waits for its post
C16_Witness ==
    /\ awaitingFetch = 1
    /\ awaitingPost = 1
    /\ syncStatus = "Simulating post/sync of local changes"

(***************************************************************************)
(* C17.  Every reconciliation cycle that is started eventually completes   *)
(* and returns to Idle, given that its two delays eventually fire,         *)
(* whatever adds, imports, clears, filter changes and other cycles         *)
(* interleave with it while it is suspended; the startup starts one cycle  *)
(* immediately and the periodic timer keeps starting cycles forever.       *)
(*                                                                         *)
(* The delays of all calls are equal, so the calls leave each delay in the *)
(* order they entered it.  Every call therefore completes if a call leaves *)
(* the post delay only for the fetch delay and the fetch delay only by     *)
(* completing, one call per step (the two action conjuncts: no handler     *)
(* cancels or drops a suspended call), a call at the post delay is         *)
(* followed by a call at the fetch delay, and completions and timer ticks  *)
(* keep happening.                                                         *)
(***************************************************************************)
C17_CyclesComplete ==
    /\ awaitingPost = 1 /\ awaitingFetch = 0
    /\ [][awaitingPost' < awaitingPost =>
             /\ awaitingPost' = awaitingPost - 1
             /\ awaitingFetch' = awaitingFetch + 1]_vars
    /\ [][awaitingFetch' < awaitingFetch =>
             /\ awaitingFetch' = awaitingFetch - 1
             /\ awaitingPost' = awaitingPost]_vars
    /\ (awaitingPost > 0) ~> (awaitingFetch > 0)
    /\ []<><<FetchDelay(LiveEnv)>>_vars
    /\ []<><<TimerTick(LiveEnv)>>_vars
\* the page is idle again after cycles that an add and a clear interleaved with
C17_Witness ==
    /\ Cycles = 0
    /\ syncStatus = "Sync complete. Server data took precedence"
    /\ addedQuotes # {}

(***************************************************************************)
(* C18.  An import is accepted only if the top-level value is an array and *)
(* every entry is an object whose text and category are both non-empty     *)
(* strings: a payload with an entry whose text or category is present but  *)
(* not a string, such as a number or the boolean true, is rejected and     *)
(* adds nothing to the collection.                                         *)
(***************************************************************************)
C18_TypedEntriesRejected ==
    [][\A text \in TypedEnv.files, rnd \in Rnd :
          (/\ Logged("importFromJsonFile")
           /\ ~ValidPayload(text)
           /\ ImportStep(text, rnd)) =>
              /\ lastEvent'.outcome # "imported"
              /\ UNCHANGED <<quotes, heap, localStorage>>]_vars

(***************************************************************************)
(* C19.  The filter options after the fixed "all" entry are exactly the    *)
(* distinct categories of the current collection, each once, in the order  *)
(* of their first occurrence in the collection; this holds after every     *)
(* add, import, clear and replacement of the collection, that is, in every *)
(* state of the page.                                                      *)
(***************************************************************************)
\* the positions of qs at which a category occurs for the first time
FirstOccurrences(qs) ==
    {i \in 1..Len(qs) :
        \A j \in 1..(i - 1) : Get(qs[j], K_category) # Get(qs[i], K_category)}
\* the k-th smallest member of a set of positions
Nth(positions, k) ==
    CHOOSE i \in positions : Cardinality({j \in positions : j < i}) = k - 1
DistinctCategories(qs) ==
    [k \in 1..Cardinality(FirstOccurrences(qs)) |->
        JSString(Get(qs[Nth(FirstOccurrences(qs), k)], K_category))]
C19_OptionsAreCategories == Options = <<ALL>> \o DistinctCategories(Quotes)
\* three quotes of two categories, the first category occurring again after
\* the second: two options follow "all"
C19_Witness ==
    /\ Len(Quotes) = 3
    /\ Get(Quotes[3], K_category) = Get(Quotes[1], K_category)
    /\ Get(Quotes[2], K_category) # Get(Quotes[1], K_category)
    /\ Len(Options) = 3

(***************************************************************************)
(* C20.  Every time a quote is selected for display (the presenter run on  *)
(* a non-empty subset, from the new-quote button, a filter change, an add, *)
(* an import or a reconcile replacement), that same quote is written to    *)
(* the session key of the last viewed quote; so whenever the display shows *)
(* a quote, the last viewed quote is the displayed one, it is an element   *)
(* of the collection in memory, and it matches the active filter.          *)
(***************************************************************************)
LastViewed == sessionStorage
ActiveFilter == localStorage.filter
C20_LastViewedIsDisplayed ==
    quoteDisplay.kind = "quote" =>
        /\ LastViewed = Item(JSONstringify(quoteDisplay.quote))
        /\ Has(Quotes, quoteDisplay.quote)
        /\ ActiveFilter.has
        /\ \/ ActiveFilter.v = ALL
           \/ Get(quoteDisplay.quote, K_category) = Str(ActiveFilter.v)
\* the second of three quotes is displayed under the filter of its category
C20_Witness ==
    /\ quoteDisplay.kind = "quote"
    /\ Len(Quotes) = 3
    /\ quoteDisplay.quote = Quotes[2]
    /\ ActiveFilter = Item(Technology)
    /\ LastViewed = Item(JSONstringify(Quotes[2]))

(***************************************************************************)
(* C21.  Persistence is a full snapshot on every mutation: in every state  *)
(* between event handlers (after the page load and after any completed     *)
(* add, import or reconcile replacement, in any interleaving), whenever    *)
(* the persisted collection key is present, its content is the collection  *)
(* in memory, element for element and in the same order.                   *)
(***************************************************************************)
C21_PersistedIsSnapshot ==
    PersistedQuotes.has =>
        /\ JSONparse(PersistedQuotes.v).ok
        /\ JSONparse(PersistedQuotes.v).val = Arr(Quotes)
\* a reconcile replacement has been persisted after a quote was added, while
\* another cycle is suspended
C21_Witness ==
    /\ PersistedQuotes = Item(JSONstringify(Arr(MOCK_SERVER_DATA_literal)))
    /\ syncStatus = "Sync complete. Server data took precedence"
    /\ addedQuotes # {}
    /\ awaitingPost = 1

(***************************************************************************)
(* C22.  Within one reconciliation cycle the steps after the last delay    *)
(* (read the local snapshot, compare it with the canonical snapshot,       *)
(* replace the collection, persist it, refresh categories and filter) run  *)
(* as one uninterrupted step: the step in which a suspended call completes *)
(* takes exactly that call out of the fetch delay, moves no other call and *)
(* runs no add; it decides on the persisted collection as it is in the     *)
(* state the step starts from, which is the collection in memory (with     *)
(* every quote added while the call was suspended), and on a difference it *)
(* has replaced, persisted and refreshed by the end of the same step.      *)
(***************************************************************************)
C22_CompletionIsOneStep ==
    [][(Logged("syncQuotes") /\ lastEvent'.outcome # "posted") =>
          LET localQuotes == LoadResult(PersistedQuotes, CanonicalSnapshot)
          IN  /\ awaitingFetch' = awaitingFetch - 1
              /\ awaitingPost' = awaitingPost
              /\ addedQuotes' = addedQuotes
              /\ PersistedQuotes.has => localQuotes = Quotes
              /\ IF localQuotes # CanonicalSnapshot
                 THEN /\ quotes' = "MOCK_SERVER_DATA"
                      /\ Quotes' = CanonicalSnapshot
                      /\ PersistedQuotes' = Item(JSONstringify(Arr(CanonicalSnapshot)))
                      /\ Options' = <<ALL>> \o DistinctCategories(CanonicalSnapshot)
                      /\ ActiveFilter' = Item(categoryFilterSelect'.value)
                 ELSE UNCHANGED <<quotes, heap, localStorage, sessionStorage,
                                  categoryFilterSelect, quoteDisplay>>]_vars
\* a call completes by replacing a collection that holds a quote added while a
\* call was suspended, and another call is still suspended
C22_Witness ==
    /\ lastEvent = Event("syncQuotes", "replaced")
    /\ addedQuotes # {}
    /\ awaitingPost = 1
    /\ awaitingFetch = 0

(***************************************************************************)
(* C23.  The reconciler compares the canonical snapshot with the           *)
(* collection read from persistent storage, not with the collection in     *)
(* memory, and reads an absent key as the canonical set.  So once          *)
(* clearLocalStorage has left the collection empty and the key absent,     *)
(* every step that is not an add or an import keeps them so: every cycle   *)
(* that completes finds the two equal and replaces nothing, through any    *)
(* number of cycles.                                                       *)
(***************************************************************************)
Cleared == Quotes = <<>> /\ ~PersistedQuotes.has
AddsOrImports ==
    lastEvent' \in {Event("addQuote", "added"),
                    Event("importFromJsonFile", "imported"),
                    Event("exportToJsonFile", "imported")}
StaysCleared ==
    /\ Cleared'
    /\ quotes' = quotes
    /\ Logged("syncQuotes") => lastEvent'.outcome \in {"posted", "up to date"}
C23_ClearedStaysCleared ==
    [][(Cleared /\ ~AddsOrImports) => StaysCleared]_vars

(***************************************************************************)
(* C23, amended.  Once clearLocalStorage has left the collection empty and *)
(* the key absent, every step that is not an add, an import or a page load *)
(* keeps them so, and every cycle that completes finds the two equal and   *)
(* replaces nothing.  A page load reads the absent key as the canonical    *)
(* set as well and makes it the collection in memory.                      *)
(***************************************************************************)
C23_ClearedStaysClearedOnPage ==
    [][(Cleared /\ ~AddsOrImports /\ ~Logged("DOMContentLoaded")) => StaysCleared]_vars
\* after a clear, a suspended cycle has completed on the empty collection
C23_Witness ==
    /\ Cleared
    /\ quoteDisplay.kind = "All quotes cleared"
    /\ lastEvent = Event("syncQuotes", "up to date")
    /\ syncStatus = "Sync complete. Local data is up-to-date"
    /\ Cycles = 0

(***************************************************************************)
(* C24.  Once the page load has finished, in every state between event     *)
(* handlers the persisted filter key, when present, holds either "all" or  *)
(* a category that at least one quote of the collection in memory has: no  *)
(* sequence of adds, imports, filter selections and reconcile replacements *)
(* leaves a persisted filter that names an absent category.                *)
(***************************************************************************)
C24_FilterNamesPresentCategory ==
    ActiveFilter.has =>
        \/ ActiveFilter.v = ALL
        \/ \E i \in 1..Len(Quotes) : Get(Quotes[i], K_category) = Str(ActiveFilter.v)

(***************************************************************************)
(* C25.  Reconciliation is idempotent: if a reconciliation cycle has       *)
(* completed and a second cycle, overlapping with it or started later,     *)
(* completes with no add, import or clear performed in between, the second *)
(* cycle takes the no-op branch and leaves the collection in memory, the   *)
(* persisted collection and the persisted filter as they are.              *)
(***************************************************************************)
C25_ReconcileIdempotent ==
    [][(lastEvent = Reconciled /\ \E rnd \in Rnd : CompleteStep(rnd)) =>
          /\ syncStatus' = "Sync complete. Local data is up-to-date"
          /\ UNCHANGED <<quotes, heap, localStorage>>]_vars

====
